---- MODULE Spec2Model ----
(***************************************************************************)
(* Model of notify.go: the token consolidation functions (extractTokens,   *)
(* processAllTokens) and the per-session notification state machine        *)
(* (Notify) with its registry (processedSessions, sessionMessageMap, mu),  *)
(* the temporary artifact file and the Telegram channel it talks to.       *)
(***************************************************************************)
EXTENDS Integers, Sequences, FiniteSets, TLC

(***************************************************************************)
(* Bounds of the model.                                                    *)
(***************************************************************************)
\* Number of Notify calls (each goroutine of the model makes one call;
\* a call may start before or after any other call has returned).
NumCallers == 2

\* time.Now() at one-second resolution takes the values 0..MaxClock.
MaxClock == 1

\* Number of times extractTokens is run on one input.
MaxRuns == 2

(***************************************************************************)
(* JSON values and Go strings holding JSON text.                           *)
(* A JSON object is a set of [k, v] pairs with distinct keys.              *)
(***************************************************************************)
JNull == [kind |-> "null"]

JStr(s) == [kind |-> "str", s |-> s]

JBool(b) == [kind |-> "bool", b |-> b]

JObj(m) == [kind |-> "obj", m |-> m]

\* The Go string "".
EmptyString == [kind |-> "empty"]

\* A Go string that is not JSON text.
NotJSON == [kind |-> "notjson"]

Has(obj, key) == \E e \in obj : e.k = key

Get(obj, key) == (CHOOSE e \in obj : e.k = key).v

\* v, ok := tokenData[key].(string)
StrField(tokenData, key) ==
    IF Has(tokenData, key) /\ Get(tokenData, key).kind = "str"
    THEN Get(tokenData, key).s
    ELSE ""

\* v, ok := tokenData[key].(bool)
BoolField(tokenData, key) ==
    IF Has(tokenData, key) /\ Get(tokenData, key).kind = "bool"
    THEN Get(tokenData, key).b
    ELSE FALSE

\* v, ok := tokenData[key]   (an interface{} value, nil when absent)
AnyField(tokenData, key) ==
    IF Has(tokenData, key) THEN Get(tokenData, key) ELSE JNull

(***************************************************************************)
(* extractTokens                                                           *)
(***************************************************************************)
\* if len(domain) > 0 && domain[0] == '.' { domain = domain[1:] }
\* A domain is a sequence of one-character strings.
StripDot(domain) ==
    IF Len(domain) > 0 /\ domain[1] = "." THEN Tail(domain) ELSE domain

\* The body of the inner loop for one leaf entry, after the domain was
\* stripped: the Token built from tokenData.
TokenOf(domain, tokenData) ==
    [Name             |-> StrField(tokenData, "Name"),
     Value            |-> StrField(tokenData, "Value"),
     Domain           |-> domain,
     HostOnly         |-> BoolField(tokenData, "HostOnly"),
     Path             |-> StrField(tokenData, "Path"),
     Secure           |-> BoolField(tokenData, "Secure"),
     HttpOnly         |-> BoolField(tokenData, "HttpOnly"),
     SameSite         |-> StrField(tokenData, "SameSite"),
     Session          |-> BoolField(tokenData, "Session"),
     FirstPartyDomain |-> StrField(tokenData, "FirstPartyDomain"),
     PartitionKey     |-> AnyField(tokenData, "PartitionKey"),
     ExpirationDate   |-> JNull,
     StoreID          |-> IF Has(tokenData, "storeId")
                          THEN Get(tokenData, "storeId")
                          ELSE AnyField(tokenData, "StoreID")]

\* The inner loop `for _, tokenData := range tokenGroup` over the entries
\* in the order visited. The loop variable domain of the outer loop is
\* reassigned inside the inner loop, so the stripping accumulates over the
\* entries of one domain key.
RECURSIVE GroupLoop(_, _, _, _)
GroupLoop(domain, entries, i, tokens) ==
    IF i > Len(entries)
    THEN tokens
    ELSE LET d == StripDot(domain)
         IN  GroupLoop(d, entries, i + 1, Append(tokens, TokenOf(d, entries[i])))

\* All the orders in which `range` may visit the values of a Go map.
RECURSIVE Orders(_)
Orders(m) ==
    IF m = {}
    THEN {<<>>}
    ELSE UNION {{<<e.v>> \o s : s \in Orders(m \ {e})} : e \in m}

\* The outer loop `for domain, tokenGroup := range input`; the set of the
\* results the map iteration orders can produce.
RECURSIVE ExtractFrom(_, _)
ExtractFrom(input, tokens) ==
    IF input = {}
    THEN {tokens}
    ELSE UNION {UNION {ExtractFrom(input \ {e}, GroupLoop(e.k, order, 1, tokens))
                       : order \in Orders(e.v)}
                : e \in input}

extractTokens(input) == ExtractFrom(input, <<>>)

(***************************************************************************)
(* processAllTokens                                                        *)
(***************************************************************************)
\* json.Unmarshal into map[string]map[string]map[string]interface{}:
\* null decodes to a nil map at each level, an object is needed otherwise.
IsMapJSON(v) == v.kind \in {"null", "obj"}

Entries(v) == IF v.kind = "obj" THEN v.m ELSE {}

Unmarshal(tokenJSON) ==
    IF /\ IsMapJSON(tokenJSON)
       /\ \A d \in Entries(tokenJSON) :
            /\ IsMapJSON(d.v)
            /\ \A g \in Entries(d.v) : IsMapJSON(g.v)
    THEN [err |-> FALSE,
          rawTokens |-> {[k |-> d.k,
                          v |-> {[k |-> g.k, v |-> Entries(g.v)] : g \in Entries(d.v)}]
                         : d \in Entries(tokenJSON)}]
    ELSE [err |-> TRUE, rawTokens |-> {}]

\* for i := range tokens { tokens[i].ExpirationDate = nil }
ClearExpiration(tokens) ==
    [i \in 1..Len(tokens) |-> [tokens[i] EXCEPT !.ExpirationDate = JNull]]

\* []string{sessionTokens, httpTokens, bodyTokens, customTokens}
CategoryOrderSwapped(sessionTokens, httpTokens, bodyTokens, customTokens) ==
    <<sessionTokens, bodyTokens, httpTokens, customTokens>>

CategoryOrder(sessionTokens, httpTokens, bodyTokens, customTokens) ==
    <<sessionTokens, httpTokens, bodyTokens, customTokens>>

\* return nil, fmt.Errorf("error parsing token JSON: %v", err)
ParseFailurePartial(consolidatedTokens) ==
    [tokens |-> consolidatedTokens, err |-> TRUE]

ParseFailure(consolidatedTokens) ==
    [tokens |-> <<>>, err |-> TRUE]

\* The loop over the four payloads; the set of the results it can produce.
RECURSIVE ProcessLoop(_, _, _)
ProcessLoop(list, i, consolidatedTokens) ==
    IF i > Len(list)
    THEN {[tokens |-> consolidatedTokens, err |-> FALSE]}
    ELSE IF list[i] = EmptyString
    THEN ProcessLoop(list, i + 1, consolidatedTokens)
    ELSE LET u == Unmarshal(list[i])
         IN  IF u.err
             THEN {ParseFailure(consolidatedTokens)}
             ELSE UNION {ProcessLoop(list, i + 1,
                                     consolidatedTokens \o ClearExpiration(tokens))
                         : tokens \in extractTokens(u.rawTokens)}

processAllTokens(sessionTokens, httpTokens, bodyTokens, customTokens) ==
    ProcessLoop(CategoryOrder(sessionTokens, httpTokens, bodyTokens, customTokens),
                1, <<>>)

(***************************************************************************)
(* Sessions (database.Session values handed to Notify).                    *)
(* Tokens, HTTPTokens, BodyTokens and Custom hold the JSON text that       *)
(* json.MarshalIndent produces for the field.                              *)
(***************************************************************************)
Ids == {"id1", "id2"}

Leaf(name) == JObj({[k |-> "Name", v |-> JStr(name)], [k |-> "Value", v |-> JStr("v")]})

\* {".a": {"0": {"Name": name, "Value": "v"}}}
OneToken(name) == JObj({[k |-> <<".", "a">>, v |-> JObj({[k |-> "0", v |-> Leaf(name)]})]})

\* {"k": "v"}: an object whose value is a string where a map is expected.
BadShape == JObj({[k |-> <<"k">>, v |-> JStr("v")]})

MakeSnapshot(username, password, tokens, httpTokens) ==
    [Username   |-> username,
     Password   |-> password,
     LandingURL |-> "https://l",
     UserAgent  |-> "ua",
     RemoteAddr |-> "10.0.0.1",
     CreateTime |-> 7,
     Tokens     |-> tokens,
     HTTPTokens |-> httpTokens,
     BodyTokens |-> JNull,
     Custom     |-> JNull]

\* credentials not yet complete, no cookies yet
SnapshotA == MakeSnapshot(<<"a", "@", "b">>, "", JNull, JNull)

\* the same user, complete
SnapshotB == MakeSnapshot(<<"a", "@", "b">>, "pw", OneToken("S"), JNull)

\* another user, HTTP tokens that do not decode into the nested maps
SnapshotC == MakeSnapshot(<<"a", ".", "b">>, "pw", OneToken("S"), BadShape)

Snapshots == {SnapshotA, SnapshotB, SnapshotC}

NoSession == [ID |-> ""]

MakeSession(id, s) ==
    [ID         |-> id,
     Username   |-> s.Username,
     Password   |-> s.Password,
     LandingURL |-> s.LandingURL,
     UserAgent  |-> s.UserAgent,
     RemoteAddr |-> s.RemoteAddr,
     CreateTime |-> s.CreateTime,
     Tokens     |-> s.Tokens,
     HTTPTokens |-> s.HTTPTokens,
     BodyTokens |-> s.BodyTokens,
     Custom     |-> s.Custom]

(***************************************************************************)
(* State.                                                                  *)
(***************************************************************************)
\* The calls are numbered in the order in which they begin.
Callers == 1..NumCallers

VARIABLES
    processedSessions,  \* map[string]bool
    sessionMessageMap,  \* map[string]int: id -> [ok, v] as a lookup returns it
    mu,                 \* sync.Mutex: 0 when free, else the caller that holds it
    pc,                 \* where each call is
    session,            \* the argument of each call
    role,               \* the branch the call took at line 262
    messageID,          \* the local messageID of each call
    exists,             \* the local exists of each call (line 264)
    txtFilePath,        \* the local txtFilePath of each call
    fs,                 \* os.TempDir(): path -> file
    now,                \* time.Now(), in seconds
    messages,           \* the channel: message handle -> content
    request,            \* the channel call each call made, if any
    outcome,            \* how each call ended
    doneBefore,         \* the calls that had returned when each call began
    created,            \* id -> number of sendTelegramNotification calls
    tokenArgs,          \* the arguments of a processAllTokens call
    tokenResult,        \* what that call returned
    input,              \* the argument of the extractTokens calls
    runs                \* what the extractTokens calls on input returned

notifyVars == <<processedSessions, sessionMessageMap, mu, pc, session, role,
                messageID, exists, txtFilePath, fs, now, messages,
                request, outcome, doneBefore, created>>

tokenVars == <<tokenArgs, tokenResult, input, runs>>

vars == <<notifyVars, tokenVars>>

\* The runtime ended the process with a fatal error: nothing runs any more.
crashed == \E p \in Callers : pc[p] = "fatal"

\* strings.ReplaceAll(strings.ReplaceAll(username, "@", "_"), ".", "_")
SafeEmail(username) ==
    [i \in 1..Len(username) |-> IF username[i] \in {"@", "."} THEN "_" ELSE username[i]]

\* filepath.Join(os.TempDir(), safeEmail + "_" + timestamp + ".txt")
TxtFilePath(username, timestamp) == <<SafeEmail(username), timestamp>>

Paths == {TxtFilePath(s.Username, t) : s \in Snapshots, t \in 0..MaxClock}

NoPath == <<>>

NoFile == [present |-> FALSE]

NoRequest == [op |-> "none"]

NoArgs == <<>>

NoResult == [tokens |-> <<>>, err |-> FALSE, returned |-> FALSE]

NoInput == {}

NoRuns == <<>>

NotifyInit ==
    /\ processedSessions = [id \in Ids |-> FALSE]
    /\ sessionMessageMap = [id \in Ids |-> [ok |-> FALSE, v |-> 0]]
    /\ mu = 0
    /\ pc = [p \in Callers |-> "idle"]
    /\ session = [p \in Callers |-> NoSession]
    /\ role = [p \in Callers |-> "none"]
    /\ messageID = [p \in Callers |-> 0]
    /\ exists = [p \in Callers |-> FALSE]
    /\ txtFilePath = [p \in Callers |-> NoPath]
    /\ fs = [path \in Paths |-> NoFile]
    /\ now = 0
    /\ messages = <<>>
    /\ request = [p \in Callers |-> NoRequest]
    /\ outcome = [p \in Callers |-> "running"]
    /\ doneBefore = [p \in Callers |-> {}]
    /\ created = [id \in Ids |-> 0]

Init ==
    /\ NotifyInit
    /\ tokenArgs = NoArgs
    /\ tokenResult = NoResult
    /\ input = NoInput
    /\ runs = NoRuns

(***************************************************************************)
(* createTxtFile and formatSessionMessage.                                 *)
(***************************************************************************)
\* The text handed to the channel as the message body.
formatSessionMessage(s) ==
    [sessionComplete |-> /\ s.Username # <<>>
                         /\ s.Password # ""
                         /\ Cardinality(Entries(s.Tokens)) > 0,
     Username   |-> s.Username,
     Password   |-> s.Password,
     LandingURL |-> s.LandingURL,
     UserAgent  |-> s.UserAgent,
     RemoteAddr |-> s.RemoteAddr,
     CreateTime |-> s.CreateTime]

\* The file after os.Create (created or truncated, nothing written yet).
\* by names the call that made the file.
CreatedFile(p) == [present |-> TRUE, by |-> p, written |-> FALSE, tokens |-> <<>>]

\* The file after txtFile.WriteString(jsWrapper).
WrittenFile(p, allTokens) ==
    [present |-> TRUE, by |-> p, written |-> TRUE, tokens |-> allTokens]

\* What a reader of the file gets.
FileData(f) ==
    IF f.present
    THEN [present |-> TRUE, written |-> f.written, tokens |-> f.tokens]
    ELSE [present |-> FALSE]

\* The results processAllTokens can return at line 171.
AllTokens(s) == processAllTokens(s.Tokens, s.HTTPTokens, s.BodyTokens, s.Custom)

\* The artifacts createTxtFile can write for a session.
Artifacts(s) ==
    {[present |-> TRUE, written |-> TRUE, tokens |-> r.tokens]
     : r \in {x \in AllTokens(s) : ~x.err}}

\* The call returns; how it ended is kept in outcome.
Return(p, how) ==
    /\ pc' = [pc EXCEPT ![p] = "done"]
    /\ outcome' = [outcome EXCEPT ![p] = how]

(***************************************************************************)
(* Notify, one action per step of a call.                                  *)
(***************************************************************************)
\* Notify(session) is called and loadConfig succeeds (lines 254-259).
\* Calls are numbered in the order they begin, and identifiers in the order
\* of their first use: "id2" is passed only once some identifier is known.
NotifyCall(p, id, s) ==
    /\ ~crashed
    /\ pc[p] = "idle"
    /\ \A q \in Callers : q < p => pc[q] # "idle"
    /\ \/ id = "id1"
       \/ \E i \in Ids : processedSessions[i] \/ \E q \in Callers : session[q].ID = i
    /\ session' = [session EXCEPT ![p] = MakeSession(id, s)]
    /\ doneBefore' = [doneBefore EXCEPT ![p] = {q \in Callers : pc[q] = "done"}]
    /\ pc' = [pc EXCEPT ![p] = "lock"]
    /\ UNCHANGED <<processedSessions, sessionMessageMap, mu, role, messageID, exists,
                   txtFilePath, fs, now, messages, request, outcome, created>>
    /\ UNCHANGED tokenVars

\* Notify(session) is called and loadConfig fails (lines 255-259): the call
\* returns before it reads anything of the session.
NotifyCallConfigError(p) ==
    /\ ~crashed
    /\ pc[p] = "idle"
    /\ \A q \in Callers : q < p => pc[q] # "idle"
    /\ doneBefore' = [doneBefore EXCEPT ![p] = {q \in Callers : pc[q] = "done"}]
    /\ Return(p, "configError")
    /\ UNCHANGED <<processedSessions, sessionMessageMap, mu, session, role, messageID,
                   exists, txtFilePath, fs, now, messages, request, created>>
    /\ UNCHANGED tokenVars

\* mu.Lock() (lines 261, 298) returns only when no call holds the mutex.
LockAnyway(p) == TRUE

Lock(p) == mu = 0

\* mu.Unlock() (lines 263, 282, 300).
UnlockOmitted(p) == mu' = mu

Unlock(p) == mu' = 0

\* if processedSessions[string(session.ID)]  (line 262)
AlreadyProcessedByHandle(id) == sessionMessageMap[id].ok

AlreadyProcessed(id) == processedSessions[id]

\* lines 261-263: mu.Lock(); the identifier is found marked; mu.Unlock().
TestProcessedSeen(p) ==
    /\ ~crashed
    /\ pc[p] = "lock"
    /\ Lock(p)
    /\ AlreadyProcessed(session[p].ID)
    /\ role' = [role EXCEPT ![p] = "editor"]
    /\ Unlock(p)
    /\ pc' = [pc EXCEPT ![p] = "lookup"]
    /\ UNCHANGED <<processedSessions, sessionMessageMap, session, messageID,
                   exists, txtFilePath, fs, now, messages, request, outcome,
                   doneBefore, created>>
    /\ UNCHANGED tokenVars

\* lines 261-262: mu.Lock(); the identifier is found unmarked. The call
\* goes on to line 281 with the mutex held.
TestProcessedUnseen(p) ==
    /\ ~crashed
    /\ pc[p] = "lock"
    /\ Lock(p)
    /\ ~AlreadyProcessed(session[p].ID)
    /\ role' = [role EXCEPT ![p] = "creator"]
    /\ mu' = p
    /\ pc' = [pc EXCEPT ![p] = "mark"]
    /\ UNCHANGED <<processedSessions, sessionMessageMap, session, messageID,
                   exists, txtFilePath, fs, now, messages, request, outcome,
                   doneBefore, created>>
    /\ UNCHANGED tokenVars

\* lines 281-282: processedSessions[id] = true; mu.Unlock()
MarkProcessed(p) ==
    /\ ~crashed
    /\ pc[p] = "mark"
    /\ processedSessions' = [processedSessions EXCEPT ![session[p].ID] = TRUE]
    /\ Unlock(p)
    /\ pc' = [pc EXCEPT ![p] = "createTxt"]
    /\ UNCHANGED <<sessionMessageMap, session, role, messageID, exists, txtFilePath,
                   fs, now, messages, request, outcome, doneBefore, created>>
    /\ UNCHANGED tokenVars

\* line 264: messageID, exists := sessionMessageMap[id], read without the lock.
\* The read races with the map write of line 299 in another call. While a
\* writer is inside the runtime's map assignment the read can miss the key
\* (the table is being changed under it); the runtime may also detect the
\* writer and end the process (LookupFatal). After the assignment inserted
\* the key and before the value is stored, the read finds the key with the
\* zero value.
MapBeingWritten == \E q \in Callers : pc[q] = "assigning"

LookupResults(id) ==
    {sessionMessageMap[id]}
        \cup (IF MapBeingWritten THEN {[ok |-> FALSE, v |-> 0]} ELSE {})

\* if exists { ... }  (line 265)
HandleFoundAlways(r) == TRUE

HandleFound(r) == r.ok

LookupHandle(p) ==
    /\ ~crashed
    /\ pc[p] = "lookup"
    /\ \E r \in LookupResults(session[p].ID) :
         /\ messageID' = [messageID EXCEPT ![p] = r.v]
         /\ exists' = [exists EXCEPT ![p] = r.ok]
         /\ IF HandleFound(r)
            THEN /\ pc' = [pc EXCEPT ![p] = "createTxt"]
                 /\ UNCHANGED outcome
            ELSE Return(p, "skipped")
    /\ UNCHANGED <<processedSessions, sessionMessageMap, mu, session, role,
                   txtFilePath, fs, now, messages, request, doneBefore,
                   created>>
    /\ UNCHANGED tokenVars

\* fatal error: concurrent map read and map write
LookupFatal(p) ==
    /\ ~crashed
    /\ pc[p] = "lookup"
    /\ MapBeingWritten
    /\ pc' = [pc EXCEPT ![p] = "fatal"]
    /\ UNCHANGED <<processedSessions, sessionMessageMap, mu, session, role,
                   messageID, exists, txtFilePath, fs, now, messages, request,
                   outcome, doneBefore, created>>
    /\ UNCHANGED tokenVars

\* lines 267-270 and 285-288: what the error branch does to
\* processedSessions: nothing.
OnBuildErrorRollback(id) == [processedSessions EXCEPT ![id] = FALSE]

OnBuildError(id) == processedSessions

\* createTxtFile at line 266 or 284: os.Create fails (line 146-149).
CreateTxtFileOpenError(p) ==
    /\ ~crashed
    /\ pc[p] = "createTxt"
    /\ processedSessions' = OnBuildError(session[p].ID)
    /\ Return(p, "buildError")
    /\ messageID' = [messageID EXCEPT ![p] = 0]
    /\ exists' = [exists EXCEPT ![p] = FALSE]
    /\ UNCHANGED <<sessionMessageMap, mu, session, role,
                   txtFilePath, fs, now, messages, request, doneBefore,
                   created>>
    /\ UNCHANGED tokenVars

\* timestamp := time.Now().Format("20060102_150405") (line 141): the second
\* the clock shows when createTxtFile reads it, not before the last reading.
Timestamps == now..MaxClock

\* createTxtFile: the file was created (line 146) and a later step fails
\* (lines 153-179, 215-218): the function returns "" and the error, and
\* only closes the file. A session whose payloads do not parse always ends
\* here.
CreateTxtFileError(p) ==
    /\ ~crashed
    /\ pc[p] = "createTxt"
    /\ \E timestamp \in Timestamps :
         /\ now' = timestamp
         /\ fs' = [fs EXCEPT ![TxtFilePath(session[p].Username, timestamp)] =
                                 CreatedFile(p)]
    /\ processedSessions' = OnBuildError(session[p].ID)
    /\ Return(p, "buildError")
    /\ messageID' = [messageID EXCEPT ![p] = 0]
    /\ exists' = [exists EXCEPT ![p] = FALSE]
    /\ UNCHANGED <<sessionMessageMap, mu, session, role,
                   txtFilePath, messages, request, doneBefore, created>>
    /\ UNCHANGED tokenVars

\* createTxtFile succeeds (lines 137-221).
CreateTxtFileOk(p) ==
    /\ ~crashed
    /\ pc[p] = "createTxt"
    /\ \E timestamp \in Timestamps, r \in AllTokens(session[p]) :
         /\ ~r.err
         /\ now' = timestamp
         /\ fs' = [fs EXCEPT ![TxtFilePath(session[p].Username, timestamp)] =
                                 WrittenFile(p, r.tokens)]
         /\ txtFilePath' = [txtFilePath EXCEPT ![p] =
                              TxtFilePath(session[p].Username, timestamp)]
    /\ pc' = [pc EXCEPT ![p] = IF role[p] = "editor" THEN "edit" ELSE "send"]
    /\ UNCHANGED <<processedSessions, sessionMessageMap, mu, session, role, messageID,
                   exists, messages, request, outcome, doneBefore, created>>
    /\ UNCHANGED tokenVars

(***************************************************************************)
(* The channel client: sendTelegramNotification and editMessageFile.       *)
(***************************************************************************)
\* lines 271-272 and 290-291: the body is formatted from the session of
\* this call and the channel call reads the file at txtFilePath.
UploadCached(p) ==
    [body |-> IF messageID[p] \in 1..Len(messages)
              THEN messages[messageID[p]].body
              ELSE formatSessionMessage(session[p]),
     file |-> FileData(fs[txtFilePath[p]])]

Upload(p) ==
    [body |-> formatSessionMessage(session[p]), file |-> FileData(fs[txtFilePath[p]])]

\* Create(target, authToken, messageBody, attachmentPath): the channel
\* keeps the message and returns its handle, the next message number.
ChannelCreate(content) == Append(messages, content)

\* Edit(target, authToken, messageHandle, attachmentPath, messageBody):
\* the channel replaces the content of the message with that handle; there
\* must be such a message.
ChannelHas(handle) == handle \in 1..Len(messages)

ChannelEdit(handle, content) == [messages EXCEPT ![handle] = content]

\* lines 271-275: editMessageFile succeeds.
EditMessageOk(p) ==
    /\ ~crashed
    /\ pc[p] = "edit"
    /\ fs[txtFilePath[p]].present
    /\ ChannelHas(messageID[p])
    /\ messages' = ChannelEdit(messageID[p], Upload(p))
    /\ request' = [request EXCEPT ![p] =
                     [op |-> "edit", handle |-> messageID[p], content |-> Upload(p)]]
    /\ outcome' = [outcome EXCEPT ![p] = "editOk"]
    /\ pc' = [pc EXCEPT ![p] = "remove"]
    /\ UNCHANGED <<processedSessions, sessionMessageMap, mu, session, role, messageID,
                   exists, txtFilePath, fs, now, doneBefore, created>>
    /\ UNCHANGED tokenVars

\* lines 273-275: what the error branch does to sessionMessageMap: nothing.
OnEditErrorForget(id) == [sessionMessageMap EXCEPT ![id] = [ok |-> FALSE, v |-> 0]]

OnEditError(id) == sessionMessageMap

\* lines 271-275: editMessageFile fails; the error is printed.
EditMessageError(p) ==
    /\ ~crashed
    /\ pc[p] = "edit"
    /\ sessionMessageMap' = OnEditError(session[p].ID)
    /\ request' = [request EXCEPT ![p] =
                     [op |-> "edit", handle |-> messageID[p], content |-> Upload(p)]]
    /\ outcome' = [outcome EXCEPT ![p] = "editError"]
    /\ pc' = [pc EXCEPT ![p] = "remove"]
    /\ UNCHANGED <<processedSessions, mu, session, role, messageID,
                   exists, txtFilePath, fs, now, messages, doneBefore,
                   created>>
    /\ UNCHANGED tokenVars

\* lines 290-291: sendTelegramNotification succeeds and returns the handle.
SendNotificationOk(p) ==
    /\ ~crashed
    /\ pc[p] = "send"
    /\ fs[txtFilePath[p]].present
    /\ messages' = ChannelCreate(Upload(p))
    /\ messageID' = [messageID EXCEPT ![p] = Len(messages) + 1]
    /\ created' = [created EXCEPT ![session[p].ID] = @ + 1]
    /\ request' = [request EXCEPT ![p] =
                     [op |-> "create", handle |-> Len(messages) + 1,
                      content |-> Upload(p)]]
    /\ outcome' = [outcome EXCEPT ![p] = "createOk"]
    /\ pc' = [pc EXCEPT ![p] = "lockRecord"]
    /\ UNCHANGED <<processedSessions, sessionMessageMap, mu, session, role, exists,
                   txtFilePath, fs, now, doneBefore>>
    /\ UNCHANGED tokenVars

\* lines 292-296: what the error branch does to processedSessions: nothing.
OnCreateErrorRollback(id) == [processedSessions EXCEPT ![id] = FALSE]

OnCreateError(id) == processedSessions

\* lines 291-296: sendTelegramNotification fails; the error is printed.
SendNotificationError(p) ==
    /\ ~crashed
    /\ pc[p] = "send"
    /\ created' = [created EXCEPT ![session[p].ID] = @ + 1]
    /\ request' = [request EXCEPT ![p] =
                     [op |-> "create", handle |-> 0, content |-> Upload(p)]]
    /\ outcome' = [outcome EXCEPT ![p] = "createError"]
    /\ pc' = [pc EXCEPT ![p] = "remove"]
    /\ processedSessions' = OnCreateError(session[p].ID)
    /\ UNCHANGED <<sessionMessageMap, mu, session, role, messageID,
                   exists, txtFilePath, fs, now, messages, doneBefore>>
    /\ UNCHANGED tokenVars

(***************************************************************************)
(* Recording the handle (lines 298-300) and removing the file.             *)
(***************************************************************************)
\* lines 298-299: mu.Lock(); the runtime's map assignment begins.
MapAssignBegin(p) ==
    /\ ~crashed
    /\ pc[p] = "lockRecord"
    /\ Lock(p)
    /\ mu' = p
    /\ pc' = [pc EXCEPT ![p] = "assigning"]
    /\ UNCHANGED <<processedSessions, sessionMessageMap, session, role, messageID,
                   exists, txtFilePath, fs, now, messages, request, outcome,
                   doneBefore, created>>
    /\ UNCHANGED tokenVars

\* line 299: the map assignment inserted the key and returns the slot of
\* its value, which still holds the zero value (or the previous value).
MapAssignEnd(p) ==
    /\ ~crashed
    /\ pc[p] = "assigning"
    /\ sessionMessageMap' =
         [sessionMessageMap EXCEPT ![session[p].ID] = [ok |-> TRUE, v |-> @.v]]
    /\ pc' = [pc EXCEPT ![p] = "store"]
    /\ UNCHANGED <<processedSessions, mu, session, role, messageID, exists,
                   txtFilePath, fs, now, messages, request, outcome,
                   doneBefore, created>>
    /\ UNCHANGED tokenVars

\* sessionMessageMap[string(session.ID)] = messageID  (line 299)
RecordHandleForAll(id, handle) == [i \in Ids |-> [ok |-> TRUE, v |-> handle]]

RecordHandle(id, handle) ==
    [sessionMessageMap EXCEPT ![id] = [ok |-> TRUE, v |-> handle]]

\* lines 299-300: the value is stored in the slot; mu.Unlock().
StoreHandle(p) ==
    /\ ~crashed
    /\ pc[p] = "store"
    /\ sessionMessageMap' = RecordHandle(session[p].ID, messageID[p])
    /\ Unlock(p)
    /\ pc' = [pc EXCEPT ![p] = "remove"]
    /\ UNCHANGED <<processedSessions, session, role, messageID, exists, txtFilePath,
                   fs, now, messages, request, outcome, doneBefore, created>>
    /\ UNCHANGED tokenVars

\* os.Remove(txtFilePath) at line 276, 294 or 302, and the return.
RemoveFile(p) ==
    /\ ~crashed
    /\ pc[p] = "remove"
    /\ fs' = [fs EXCEPT ![txtFilePath[p]] = NoFile]
    /\ pc' = [pc EXCEPT ![p] = "done"]
    /\ messageID' = [messageID EXCEPT ![p] = 0]
    /\ exists' = [exists EXCEPT ![p] = FALSE]
    /\ txtFilePath' = [txtFilePath EXCEPT ![p] = NoPath]
    /\ UNCHANGED <<processedSessions, sessionMessageMap, mu, session, role, now,
                   messages, request, outcome, doneBefore, created>>
    /\ UNCHANGED tokenVars

Next ==
    \/ \E p \in Callers, id \in Ids, s \in Snapshots : NotifyCall(p, id, s)
    \/ \E p \in Callers : NotifyCallConfigError(p)
    \/ \E p \in Callers : TestProcessedSeen(p)
    \/ \E p \in Callers : TestProcessedUnseen(p)
    \/ \E p \in Callers : MarkProcessed(p)
    \/ \E p \in Callers : LookupHandle(p)
    \/ \E p \in Callers : LookupFatal(p)
    \/ \E p \in Callers : CreateTxtFileOpenError(p)
    \/ \E p \in Callers : CreateTxtFileError(p)
    \/ \E p \in Callers : CreateTxtFileOk(p)
    \/ \E p \in Callers : EditMessageOk(p)
    \/ \E p \in Callers : EditMessageError(p)
    \/ \E p \in Callers : SendNotificationOk(p)
    \/ \E p \in Callers : SendNotificationError(p)
    \/ \E p \in Callers : MapAssignBegin(p)
    \/ \E p \in Callers : MapAssignEnd(p)
    \/ \E p \in Callers : StoreHandle(p)
    \/ \E p \in Callers : RemoveFile(p)

Spec == Init /\ [][Next]_vars

\* The steps of call p after it began: each goroutine that is inside Notify
\* keeps being scheduled, the config load, the artifact build and the
\* channel calls return, and a call that waits at mu.Lock() gets the mutex
\* once it stays free.
Step(p) ==
    \/ TestProcessedSeen(p)
    \/ TestProcessedUnseen(p)
    \/ MarkProcessed(p)
    \/ LookupHandle(p)
    \/ LookupFatal(p)
    \/ CreateTxtFileOpenError(p)
    \/ CreateTxtFileError(p)
    \/ CreateTxtFileOk(p)
    \/ EditMessageOk(p)
    \/ EditMessageError(p)
    \/ SendNotificationOk(p)
    \/ SendNotificationError(p)
    \/ MapAssignBegin(p)
    \/ MapAssignEnd(p)
    \/ StoreHandle(p)
    \/ RemoveFile(p)

Fairness == \A p \in Callers : WF_vars(Step(p))

LiveSpec == Init /\ [][Next]_vars /\ Fairness

(***************************************************************************)
(* processAllTokens applied to payloads drawn from a bounded set.          *)
(***************************************************************************)
\* {"..a": {"0": {"Name": "X"}, "1": null}}: two leaf entries under one
\* domain key, one of them null.
TwoLeaves ==
    JObj({[k |-> <<".", ".", "a">>,
           v |-> JObj({[k |-> "0", v |-> JObj({[k |-> "Name", v |-> JStr("X")]})],
                       [k |-> "1", v |-> JNull]})]})

Payloads ==
    {EmptyString, NotJSON, BadShape, TwoLeaves,
     OneToken("S"), OneToken("H"), OneToken("B"), OneToken("C")}

TokenInit ==
    /\ NotifyInit
    /\ tokenArgs \in Payloads \X Payloads \X Payloads \X Payloads
    /\ tokenResult = NoResult
    /\ input = NoInput
    /\ runs = NoRuns

\* allTokens, err := processAllTokens(sessionTokens, httpTokens, bodyTokens, customTokens)
CallProcessAllTokens ==
    /\ ~tokenResult.returned
    /\ \E r \in processAllTokens(tokenArgs[1], tokenArgs[2], tokenArgs[3], tokenArgs[4]) :
         tokenResult' = [tokens |-> r.tokens, err |-> r.err, returned |-> TRUE]
    /\ UNCHANGED <<tokenArgs, input, runs>>
    /\ UNCHANGED notifyVars

TokenNext == CallProcessAllTokens

TokenSpec == TokenInit /\ [][TokenNext]_vars

(***************************************************************************)
(* extractTokens applied, more than once, to one RawTokenGroup drawn from  *)
(* a bounded set: up to two domain keys, each with one or two leaf entries.*)
(***************************************************************************)
\* The domain keys: no leading dot, one, two.
DomainKeys == {<<"a">>, <<".", "a">>, <<".", ".", "a">>}

\* The leaf entries (tokenData): two named tokens and the nil map.
LeafData == {Entries(Leaf("X")), Entries(Leaf("Y")), Entries(JNull)}

\* The token groups under one domain key: entry "0", or entries "0" and "1".
TokenGroups ==
    {{[k |-> "0", v |-> a]} : a \in LeafData}
        \cup {{[k |-> "0", v |-> a], [k |-> "1", v |-> b]} : a, b \in LeafData}

\* map[string]map[string]map[string]interface{} values with at most two keys.
RawTokenGroups ==
    {{}} \cup {{[k |-> d, v |-> g]} : d \in DomainKeys, g \in TokenGroups}
         \cup {{[k |-> d1, v |-> g1], [k |-> d2, v |-> g2]}
                : <<d1, d2>> \in {x \in DomainKeys \X DomainKeys : x[1] # x[2]},
                  <<g1, g2>> \in TokenGroups \X TokenGroups}

ExtractInit ==
    /\ NotifyInit
    /\ tokenArgs = NoArgs
    /\ tokenResult = NoResult
    /\ input \in RawTokenGroups
    /\ runs = NoRuns

\* tokens := extractTokens(input): one more run on the same input; the map
\* iteration takes one of its orders.
CallExtractTokens ==
    /\ Len(runs) < MaxRuns
    /\ \E tokens \in extractTokens(input) : runs' = Append(runs, tokens)
    /\ UNCHANGED <<tokenArgs, tokenResult, input>>
    /\ UNCHANGED notifyVars

ExtractNext == CallExtractTokens

ExtractSpec == ExtractInit /\ [][ExtractNext]_vars

(***************************************************************************)
(* The registry as one earlier call left it: Notify("id2", SnapshotA) ran  *)
(* alone to completion and its creation succeeded, before the calls of the *)
(* model begin.                                                            *)
(***************************************************************************)
WarmInit ==
    /\ processedSessions = [id \in Ids |-> id = "id2"]
    /\ sessionMessageMap =
         [id \in Ids |-> IF id = "id2" THEN [ok |-> TRUE, v |-> 1]
                                       ELSE [ok |-> FALSE, v |-> 0]]
    /\ mu = 0
    /\ pc = [p \in Callers |-> "idle"]
    /\ session = [p \in Callers |-> NoSession]
    /\ role = [p \in Callers |-> "none"]
    /\ messageID = [p \in Callers |-> 0]
    /\ exists = [p \in Callers |-> FALSE]
    /\ txtFilePath = [p \in Callers |-> NoPath]
    /\ fs = [path \in Paths |-> NoFile]
    /\ now = 0
    /\ \E a \in Artifacts(SnapshotA) :
         messages = <<[body |-> formatSessionMessage(MakeSession("id2", SnapshotA)),
                       file |-> a]>>
    /\ request = [p \in Callers |-> NoRequest]
    /\ outcome = [p \in Callers |-> "running"]
    /\ doneBefore = [p \in Callers |-> {}]
    /\ created = [id \in Ids |-> IF id = "id2" THEN 1 ELSE 0]
    /\ tokenArgs = NoArgs
    /\ tokenResult = NoResult
    /\ input = NoInput
    /\ runs = NoRuns

WarmSpec == WarmInit /\ [][Next]_vars

(***************************************************************************)
(* Properties.                                                             *)
(***************************************************************************)
Returned(p) == pc[p] = "done"

SameId(p, q) == pc[p] # "idle" /\ pc[q] # "idle" /\ session[p].ID = session[q].ID

\* No other call runs at any time between the begin and the return of p.
Alone(p) ==
    \A r \in Callers \ {p} : pc[r] = "idle" \/ r \in doneBefore[p] \/ p \in doneBefore[r]

\* C1: for each session identifier sendTelegramNotification is invoked at
\* most once, over all interleavings of the calls and whether the calls
\* for the identifier succeeded or failed.
AtMostOneCreate ==
    \A id \in Ids :
        /\ created[id] <= 1
        /\ Cardinality({p \in Callers : /\ pc[p] # "idle"
                                        /\ session[p].ID = id
                                        /\ request[p].op = "create"}) <= 1

\* Two calls for one identifier returned, the creation of the first failed,
\* and there was one Create.
AtMostOneCreateWitness ==
    \E p, q \in Callers :
        /\ p # q /\ SameId(p, q) /\ Returned(p) /\ Returned(q)
        /\ outcome[p] = "createError"
        /\ role[q] = "editor"
        /\ created[session[p].ID] = 1

\* C2: every call that finds its identifier already marked (a call after
\* the first for the identifier) and whose artifact build does not fail
\* edits the message whose handle the creation recorded.
EveryLaterCallEdits ==
    \A p \in Callers :
        (Returned(p) /\ role[p] = "editor" /\ outcome[p] # "buildError")
            => /\ request[p].op = "edit"
               /\ sessionMessageMap[session[p].ID].ok
               /\ request[p].handle = sessionMessageMap[session[p].ID].v

\* C3: create then edit in sequence. Call q for an identifier returned
\* after a successful Create with handle h1; call p for the same
\* identifier began afterwards, no other call overlapped it, and its config
\* load and artifact build succeeded. Then there was one Create, h1 is the
\* recorded handle, and p invoked Edit with h1, with the body and the
\* artifact of its own session.
SequentialCreateThenEdit ==
    \A p, q \in Callers :
        ( /\ Returned(p) /\ SameId(p, q) /\ q \in doneBefore[p]
          /\ outcome[q] = "createOk"
          /\ Alone(p)
          /\ outcome[p] \notin {"configError", "buildError"} )
            => /\ created[session[p].ID] = 1
               /\ request[q].op = "create"
               /\ sessionMessageMap[session[p].ID] = [ok |-> TRUE, v |-> request[q].handle]
               /\ request[p].op = "edit"
               /\ request[p].handle = request[q].handle
               /\ request[p].content.body = formatSessionMessage(session[p])
               /\ request[p].content.file \in Artifacts(session[p])

\* The scenario with two different snapshots: the first call had the
\* incomplete session, the second the complete one.
SequentialCreateThenEditWitness ==
    \E p, q \in Callers :
        /\ Returned(p) /\ SameId(p, q) /\ q \in doneBefore[p]
        /\ outcome[q] = "createOk"
        /\ Alone(p)
        /\ outcome[p] = "editOk"
        /\ session[q].Password = "" /\ session[p].Password = "pw"
        /\ request[p].content # request[q].content
        /\ messages[request[q].handle] = request[p].content

\* C4: among the calls for one identifier that reach line 262, exactly one
\* finds it unmarked; the check and the mark are one critical section: the
\* call between them holds the mutex and no other call is in a section that
\* the mutex guards.
CreationRightsExclusive ==
    /\ \A p, q \in Callers :
         (SameId(p, q) /\ role[p] = "creator" /\ role[q] = "creator") => p = q
    /\ \A p \in Callers :
         role[p] = "editor" => \E q \in Callers : SameId(p, q) /\ role[q] = "creator"
    /\ \A p \in Callers :
         pc[p] = "mark"
            => /\ mu = p
               /\ ~processedSessions[session[p].ID]
               /\ \A q \in Callers \ {p} : pc[q] \notin {"mark", "assigning", "store"}

\* Two calls for one identifier that ran at the same time: one won, the
\* other found the identifier marked.
CreationRightsExclusiveWitness ==
    \E p, q \in Callers :
        /\ SameId(p, q)
        /\ role[p] = "creator" /\ role[q] = "editor"
        /\ p \notin doneBefore[q] /\ q \notin doneBefore[p]
        /\ pc[p] = "createTxt"

\* C5: once all the calls for an identifier have returned, none of them
\* having failed to load its config, to build its artifact or in its
\* channel call, the message of the identifier holds the body and the
\* artifact of the session of the call that began last.
LatestSnapshotVisible ==
    \A id \in Ids :
        LET calls == {p \in Callers : pc[p] # "idle" /\ session[p].ID = id}
        IN  ( /\ calls # {}
              /\ \A p \in calls : /\ Returned(p)
                                  /\ outcome[p] \in {"createOk", "editOk", "skipped"}
              /\ sessionMessageMap[id].ok
              /\ sessionMessageMap[id].v \in 1..Len(messages) )
                => LET last == CHOOSE p \in calls : \A r \in calls : r <= p
                       m == messages[sessionMessageMap[id].v]
                   IN  /\ m.body = formatSessionMessage(session[last])
                       /\ m.file \in Artifacts(session[last])

\* C6: after a failed Create the identifier stays marked and has no
\* handle, there is no second Create, and every other call for the
\* identifier that reaches line 262 finds it marked, finds no handle and
\* makes no channel call.
FailedCreateIsFinal ==
    \A q \in Callers :
        outcome[q] = "createError"
            => /\ processedSessions[session[q].ID]
               /\ ~sessionMessageMap[session[q].ID].ok
               /\ created[session[q].ID] = 1
               /\ \A p \in Callers \ {q} :
                    SameId(p, q)
                        => /\ role[p] # "creator"
                           /\ request[p].op = "none"
                           /\ pc[p] \notin {"createTxt", "edit", "send"}
                           /\ Returned(p) => outcome[p] \in {"configError", "skipped"}

\* A call that began after the call with the failed Create returned, for
\* the same identifier, went down the already-notified branch and returned.
FailedCreateIsFinalWitness ==
    \E p, q \in Callers :
        /\ SameId(p, q) /\ q \in doneBefore[p]
        /\ outcome[q] = "createError"
        /\ Returned(p) /\ role[p] = "editor" /\ outcome[p] = "skipped"

\* C7: when a call has returned, no file that the call created is left.
NoArtifactLeftBehind ==
    \A p \in Callers :
        Returned(p) => \A path \in Paths : ~(fs[path].present /\ fs[path].by = p)

\* C8: a step of a call changes the flag and the handle of no identifier
\* but its own, and a call that reads the handle of its identifier at line
\* 264 goes on down its own path (edit or skip), whatever the calls for the
\* other identifiers are doing: it is not ended by them.
OtherIdentifiersUnaffected ==
    [][\A p \in Callers :
         pc'[p] # pc[p]
            => /\ \A id \in Ids \ {session'[p].ID} :
                    /\ processedSessions'[id] = processedSessions[id]
                    /\ sessionMessageMap'[id] = sessionMessageMap[id]
               /\ ( /\ pc[p] = "lookup"
                    /\ \A q \in Callers :
                         pc[q] \in {"assigning", "store"} => session[q].ID # session[p].ID )
                    => pc'[p] \in {"createTxt", "done"}
      ]_vars

(***************************************************************************)
(* Properties of processAllTokens.                                         *)
(***************************************************************************)
\* The leaf entries of a payload, as <<domain key, store key>> pairs.
LeafEntries(payload) ==
    UNION {{<<d.k, g.k>> : g \in Entries(d.v)} : d \in Entries(payload)}

\* The leaf entries of a payload whose "Name" is the string name.
LeafEntriesNamed(payload, name) ==
    UNION {{<<d.k, g.k>> : g \in {x \in Entries(d.v) :
                                    StrField(Entries(x.v), "Name") = name}}
           : d \in Entries(payload)}

Names == {"", "S", "H", "B", "C", "X"}

\* Number of leaf entries of the payloads before category i.
RECURSIVE Offset(_)
Offset(i) ==
    IF i = 1 THEN 0 ELSE Offset(i - 1) + Cardinality(LeafEntries(tokenArgs[i - 1]))

\* C9: when every payload parses, the result is as long as the leaf
\* entries of the four payloads together, and the tokens of category i are
\* the segment that follows the tokens of the categories before it: for
\* each name, the segment holds as many tokens of the name as payload i has
\* leaf entries of the name. Empty payloads contribute nothing, and equal
\* tokens of different categories are all kept.
ConsolidationInCategoryOrder ==
    (tokenResult.returned /\ ~tokenResult.err)
        => /\ Len(tokenResult.tokens) = Offset(5)
           /\ \A i \in 1..4, name \in Names :
                Cardinality({j \in (Offset(i) + 1)..Offset(i + 1) :
                               tokenResult.tokens[j].Name = name})
                    = Cardinality(LeafEntriesNamed(tokenArgs[i], name))

\* Session and body payloads hold the same token S, the HTTP payload the
\* token H, the custom payload is empty: the result is S, H, S.
ConsolidationInCategoryOrderWitness ==
    /\ tokenArgs = <<OneToken("S"), OneToken("H"), OneToken("S"), EmptyString>>
    /\ tokenResult.returned /\ ~tokenResult.err
    /\ Len(tokenResult.tokens) = 3
    /\ tokenResult.tokens[1].Name = "S"
    /\ tokenResult.tokens[2].Name = "H"
    /\ tokenResult.tokens[3] = tokenResult.tokens[1]

\* C10: when a payload that is not the empty string does not parse, the
\* call returns an error and no tokens, also none of the categories parsed
\* before it.
MalformedPayloadFailsWhole ==
    ( /\ tokenResult.returned
      /\ \E i \in 1..4 : tokenArgs[i] # EmptyString /\ Unmarshal(tokenArgs[i]).err )
        => /\ tokenResult.err
           /\ tokenResult.tokens = <<>>

\* The session payload parses and has a token, the HTTP payload is not
\* JSON: the call failed and returned nothing.
MalformedPayloadFailsWholeWitness ==
    /\ tokenArgs[1] = OneToken("S")
    /\ tokenArgs[2] = NotJSON
    /\ tokenResult.returned
    /\ tokenResult.err
    /\ tokenResult.tokens = <<>>

(***************************************************************************)
(* Properties of extractTokens.                                            *)
(***************************************************************************)
\* The leaf entries of input with the Name name, as <<domain key, store key>>.
InputEntriesNamed(name) ==
    UNION {{<<d.k, g.k>> : g \in {x \in d.v : StrField(x.v, "Name") = name}}
           : d \in input}

\* C11: every token of a run comes from a leaf entry of the input with its
\* name, and its domain is the domain key of that entry with exactly one
\* leading "." removed when there is one, whatever the number of entries
\* under the key and the order in which they were visited.
DomainStrippedOnce ==
    \A r \in 1..Len(runs) :
        \A j \in 1..Len(runs[r]) :
            \E d \in input :
                /\ \E g \in d.v : StrField(g.v, "Name") = runs[r][j].Name
                /\ runs[r][j].Domain = StripDot(d.k)

\* The tokens of a run equal to t, counted.
Count(run, t) == Cardinality({j \in 1..Len(run) : run[j] = t})

\* C12: two runs of extractTokens on the same input return the same
\* tokens when order is ignored: every token occurs equally often in both.
RunsEqualAsMultisets ==
    \A r1, r2 \in 1..Len(runs) :
        /\ Len(runs[r1]) = Len(runs[r2])
        /\ \A j \in 1..Len(runs[r1]) :
             Count(runs[r1], runs[r1][j]) = Count(runs[r2], runs[r1][j])

(***************************************************************************)
(* Properties of the registry and of the paths of Notify.                  *)
(***************************************************************************)
\* C13: a call that reads the handle map (line 264) or writes it (line
\* 299) holds the mutex, and no read of the map is pending while another
\* call is inside its write.
HandleMapAccessLocked ==
    /\ \A p \in Callers : pc[p] \in {"lookup", "assigning", "store"} => mu = p
    /\ \A p, q \in Callers :
         ~(pc[p] = "lookup" /\ pc[q] \in {"assigning", "store"})

\* C14: a call that is executing createTxtFile, sendTelegramNotification or
\* editMessageFile does not own the mutex.
NoLockWhileBlocking ==
    \A p \in Callers : pc[p] \in {"createTxt", "edit", "send"} => mu # p

\* A call is about to make its channel call while another call is inside
\* a section the mutex guards.
NoLockWhileBlockingWitness ==
    \E p, q \in Callers :
        /\ pc[p] \in {"edit", "send"}
        /\ pc[q] \in {"mark", "assigning", "store"}
        /\ mu = q

\* C15: a call that found its identifier marked builds an artifact only
\* with a handle found at line 264; a call that found no handle has
\* returned, made no channel call and created no file; and no call that
\* found its identifier marked invokes Create.
NoHandleMeansSkip ==
    \A p \in Callers :
        role[p] = "editor"
            => /\ pc[p] \in {"createTxt", "edit"} => exists[p]
               /\ request[p].op # "create"
               /\ outcome[p] = "skipped"
                    => /\ Returned(p)
                       /\ request[p].op = "none"
                       /\ txtFilePath[p] = NoPath
                       /\ \A path \in Paths : ~(fs[path].present /\ fs[path].by = p)

\* The creation is still in flight in call q when call p for the same
\* identifier has returned without a channel call.
NoHandleMeansSkipWitness ==
    \E p, q \in Callers :
        /\ SameId(p, q)
        /\ role[q] = "creator" /\ pc[q] \in {"createTxt", "send", "lockRecord"}
        /\ role[p] = "editor" /\ outcome[p] = "skipped" /\ Returned(p)
        /\ session[p] # session[q]

\* C16: no two calls hold the same file path, and a call that is about to
\* make its channel call finds at its path the file that it wrote itself.
ArtifactFilePrivate ==
    /\ \A p, q \in Callers :
         (p # q /\ txtFilePath[p] # NoPath) => txtFilePath[p] # txtFilePath[q]
    /\ \A p \in Callers :
         pc[p] \in {"edit", "send"}
            => /\ fs[txtFilePath[p]].present
               /\ fs[txtFilePath[p]].by = p

\* C17: the step in which a channel call fails leaves processedSessions
\* and sessionMessageMap as they were, with the flag of the identifier set;
\* after it the call goes only to the removal of its file and the return:
\* it writes no handle and makes no second channel call.
FailedChannelCallKeepsRegistry ==
    /\ [](\A p \in Callers :
            outcome[p] \in {"editError", "createError"}
                => /\ pc[p] \in {"remove", "done"}
                   /\ processedSessions[session[p].ID]
                   /\ request[p].op = (IF outcome[p] = "editError" THEN "edit" ELSE "create"))
    /\ [][\A p \in Callers :
            ( /\ outcome[p] = "running"
              /\ outcome'[p] \in {"editError", "createError"} )
                => /\ processedSessions' = processedSessions
                   /\ sessionMessageMap' = sessionMessageMap
                   /\ messages' = messages
         ]_vars
    /\ [][\A p \in Callers :
            outcome[p] \in {"editError", "createError"}
                => /\ request'[p] = request[p]
                   /\ pc'[p] # pc[p]
                        => /\ processedSessions' = processedSessions
                           /\ sessionMessageMap' = sessionMessageMap
         ]_vars

\* An Edit failed and the call returned: the identifier still has the
\* handle the Edit was made with.
FailedChannelCallKeepsRegistryWitness ==
    \E p \in Callers :
        /\ Returned(p) /\ outcome[p] = "editError"
        /\ request[p].handle > 0
        /\ sessionMessageMap[session[p].ID] = [ok |-> TRUE, v |-> request[p].handle]

\* C18: a call whose createTxtFile failed has returned without a channel
\* call. When it was the call that found the identifier unmarked, the
\* identifier stays marked and has no handle, no Create was made for it,
\* and every other call for it finds it marked and makes no channel call.
BuildFailureAborts ==
    \A p \in Callers :
        outcome[p] = "buildError"
            => /\ Returned(p)
               /\ request[p].op = "none"
               /\ role[p] = "creator"
                    => /\ processedSessions[session[p].ID]
                       /\ ~sessionMessageMap[session[p].ID].ok
                       /\ created[session[p].ID] = 0
                       /\ \A q \in Callers \ {p} :
                            SameId(p, q) => /\ role[q] # "creator"
                                            /\ request[q].op = "none"

\* The token consolidation of the first call for an identifier failed (a
\* payload of its session does not parse); a later call for the identifier
\* with a complete session returned without a channel call.
BuildFailureAbortsWitness ==
    \E p, q \in Callers :
        /\ SameId(p, q) /\ p \in doneBefore[q]
        /\ role[p] = "creator" /\ outcome[p] = "buildError"
        /\ \A r \in AllTokens(session[p]) : r.err
        /\ Returned(q) /\ role[q] = "editor" /\ outcome[q] = "skipped"
        /\ \E r \in AllTokens(session[q]) : ~r.err

\* The map assignment of line 299 for id is under way: the key is in the
\* map and its value is not stored yet.
Writing(id) == \E q \in Callers : pc[q] = "store" /\ session[q].ID = id

\* C19: an identifier has a handle only if it is marked; at most one call
\* writes the handle of an identifier, and the handle is the one its
\* Create returned; a flag that is set stays set; a handle that is recorded
\* is never removed and, once its write is complete, never changed.
RegistryMonotone ==
    /\ [](\A id \in Ids :
            /\ sessionMessageMap[id].ok => processedSessions[id]
            /\ Cardinality({p \in Callers :
                              /\ session[p].ID = id
                              /\ \/ pc[p] \in {"lockRecord", "assigning", "store"}
                                 \/ outcome[p] = "createOk"}) <= 1
            /\ \A p \in Callers :
                 ( /\ session[p].ID = id /\ outcome[p] = "createOk"
                   /\ pc[p] \in {"remove", "done"} )
                     => sessionMessageMap[id] = [ok |-> TRUE, v |-> request[p].handle])
    /\ [][\A id \in Ids :
            /\ processedSessions[id] => processedSessions'[id]
            /\ sessionMessageMap[id].ok => sessionMessageMap'[id].ok
            /\ (sessionMessageMap[id].ok /\ ~Writing(id))
                 => sessionMessageMap'[id] = sessionMessageMap[id]
         ]_vars

\* Both identifiers were notified: each has the handle of its own message.
RegistryMonotoneWitness ==
    /\ \A id \in Ids : processedSessions[id] /\ sessionMessageMap[id].ok
    /\ sessionMessageMap["id1"].v # sessionMessageMap["id2"].v
    /\ \A p \in Callers : Returned(p) /\ outcome[p] = "createOk"

\* C20: every call that began returns, and when it has returned it does
\* not hold the mutex.
EveryCallReturns ==
    \A p \in Callers : (pc[p] # "idle") ~> (pc[p] = "done" /\ mu # p)

\* The same, in the behaviours in which the runtime does not end the
\* process at the unlocked read of line 264.
EveryCallReturnsUnlessFatal ==
    \A p \in Callers : (pc[p] # "idle") ~> (crashed \/ (pc[p] = "done" /\ mu # p))

====
